---- MODULE Spec2Model ----
(***************************************************************************)
(* A model of trakt/errors.py (the exception taxonomy and its accessors)   *)
(* and trakt/core.py (the process-wide settings and the memoized factories *)
(* config() and api()), with the request pipeline of trakt/api.py, which   *)
(* core.py wires up but which is not part of the sources at hand, modelled *)
(* from the specification.                                                 *)
(***************************************************************************)
EXTENDS Integers, Sequences, FiniteSets, TLC

VARIABLES
    response,   \* errors.py: the response an error is built from
    err,        \* errors.py: the error instance last constructed (or NoErr)
    result,     \* errors.py: outcome of the last constructor / accessor call
    op,         \* errors.py: name of the last operation performed
    settings,     \* core.py: the module-level settings (BASE_URL, CLIENT_ID, ...)
    api_cache,    \* core.py: what lru_cache holds for api() (0: nothing)
    config_cache, \* core.py: what lru_cache holds for config() (0: nothing)
    clients,      \* core.py: the HttpClient objects constructed so far
    configs,      \* core.py: the Config objects constructed so far
    pc,           \* core.py: where each caller stands
    rd,           \* core.py: how many AuthConfig arguments a caller has evaluated
    params,       \* core.py: api()'s local params of each caller
    client,       \* core.py: api()'s local client of each caller
    ret,          \* core.py: what api() and config() last returned to each caller
    nAssign,      \* core.py: assignments to the settings made so far
    nClear,       \* core.py: cache_clear() calls made so far, per factory
    creds,        \* api.py: the credentials each client's TokenAuth holds
    lock,         \* api.py: who holds each TokenAuth's refresh lock (0: nobody)
    store,        \* api.py: the credentials last persisted to the config store
    now,          \* the clock
    server,       \* the service: the tokens it honours and their expiry
    exchanges,    \* the service: the refresh exchanges it has answered
    rq            \* api.py: each request() call in progress

errVars == <<response, err, result, op>>
coreVars ==
    <<settings, api_cache, config_cache, clients, configs, pc, rd, params,
      client, ret, nAssign, nClear>>
reqVars == <<creds, lock, store, now, server, exchanges, rq>>

(***************************************************************************)
(* Bounds of the model.                                                    *)
(***************************************************************************)
MaxRetryLen == 2
MaxJsonLen == 3
NumThreads == 2
MaxAssign == 1
MaxClear == 1
NumRequests == 2
MaxTime == 2

(***************************************************************************)
(* Python values.  One record shape for all of them, so that any two can   *)
(* be compared: t is the type, i an int's value, s a str's characters (a   *)
(* parsed JSON list is carried by its canonical text).  Absent marks a key *)
(* that a mapping does not hold.                                           *)
(***************************************************************************)
PyNone == [t |-> "None", i |-> 0, s |-> <<>>]
PyInt(n) == [t |-> "int", i |-> n, s |-> <<>>]
PyStr(cs) == [t |-> "str", i |-> 0, s |-> cs]
PyList(txt) == [t |-> "list", i |-> 0, s |-> txt]
Absent == [t |-> "absent", i |-> 0, s |-> <<>>]

\* The outcome of a call: a returned value or a raised exception.
Ok(v) == [exc |-> "none", val |-> v]
Raise(e) == [exc |-> e, val |-> PyNone]

Strings(A, n) == UNION {[1..k -> A] : k \in 0..n}

Digits == <<"0", "1", "2", "3", "4", "5", "6", "7", "8", "9">>
IsDigit(c) == \E k \in 1..Len(Digits) : Digits[k] = c
DigitVal(c) == (CHOOSE k \in 1..Len(Digits) : Digits[k] = c) - 1
IsSpace(c) == c = " "

RECURSIVE LStrip(_)
LStrip(s) == IF s # <<>> /\ IsSpace(Head(s)) THEN LStrip(Tail(s)) ELSE s

RECURSIVE RStrip(_)
RStrip(s) ==
    IF s # <<>> /\ IsSpace(s[Len(s)]) THEN RStrip(SubSeq(s, 1, Len(s) - 1)) ELSE s

RECURSIVE DecimalValue(_)
DecimalValue(ds) ==
    IF ds = <<>> THEN 0
    ELSE 10 * DecimalValue(SubSeq(ds, 1, Len(ds) - 1)) + DigitVal(ds[Len(ds)])

RECURSIVE IntToText(_)
IntToText(n) ==
    IF n < 10 THEN <<Digits[n + 1]>>
    ELSE IntToText(n \div 10) \o <<Digits[(n % 10) + 1]>>

(***************************************************************************)
(* int(x) as retry_after calls it: an int is returned as it is; a str is   *)
(* stripped of surrounding whitespace, may carry one sign, and must then   *)
(* be a non-empty run of decimal digits, else ValueError.                  *)
(***************************************************************************)
IntBody(s) ==
    LET t == RStrip(LStrip(s))
    IN  IF t # <<>> /\ Head(t) \in {"-", "+"} THEN Tail(t) ELSE t

IntSign(s) ==
    LET t == RStrip(LStrip(s))
    IN  IF t # <<>> /\ Head(t) = "-" THEN -1 ELSE 1

ParsesAsInt(s) ==
    /\ IntBody(s) # <<>>
    /\ \A k \in 1..Len(IntBody(s)) : IsDigit(IntBody(s)[k])

py_int(v) ==
    CASE v.t = "int" -> Ok(v)
      [] v.t = "str" ->
            IF ParsesAsInt(v.s)
            THEN Ok(PyInt(IntSign(v.s) * DecimalValue(IntBody(v.s))))
            ELSE Raise("ValueError")
      [] OTHER -> Raise("TypeError")

(***************************************************************************)
(* json.loads(x) as details calls it, on the JSON documents the header     *)
(* alphabet can spell: numbers and (nested) lists, with whitespace around  *)
(* any token.  Anything else raises JSONDecodeError; a non-str argument    *)
(* raises TypeError.                                                       *)
(***************************************************************************)
RECURSIVE SkipWs(_, _)
SkipWs(s, p) == IF p <= Len(s) /\ IsSpace(s[p]) THEN SkipWs(s, p + 1) ELSE p

RECURSIVE DigitsEnd(_, _)
DigitsEnd(s, p) == IF p <= Len(s) /\ IsDigit(s[p]) THEN DigitsEnd(s, p + 1) ELSE p

ParseFail == [ok |-> FALSE, next |-> 0, val |-> PyNone]

JsonText(v) == IF v.t = "int" THEN IntToText(v.i) ELSE v.s

RECURSIVE ParseValue(_, _)
ParseValue(s, p0) ==
    LET p == SkipWs(s, p0)
    IN  IF p > Len(s) THEN ParseFail
        ELSE IF IsDigit(s[p]) THEN
            LET q == DigitsEnd(s, p)
            IN  \* JSON allows no leading zero on a number of several digits
                IF s[p] = "0" /\ q > p + 1 THEN ParseFail
                ELSE [ok |-> TRUE, next |-> q,
                      val |-> PyInt(DecimalValue(SubSeq(s, p, q - 1)))]
        ELSE IF s[p] = "[" THEN
            LET q == SkipWs(s, p + 1)
            IN  IF q <= Len(s) /\ s[q] = "]"
                THEN [ok |-> TRUE, next |-> q + 1, val |-> PyList(<<"[", "]">>)]
                ELSE LET r == ParseValue(s, q)
                     IN  IF ~r.ok THEN ParseFail
                         ELSE LET e == SkipWs(s, r.next)
                              IN  IF e <= Len(s) /\ s[e] = "]"
                                  THEN [ok |-> TRUE, next |-> e + 1,
                                        val |-> PyList(<<"[">> \o JsonText(r.val)
                                                       \o <<"]">>)]
                                  ELSE ParseFail
        ELSE ParseFail

json_loads(v) ==
    IF v.t # "str" THEN Raise("TypeError")
    ELSE LET r == ParseValue(v.s, 1)
         IN  IF r.ok /\ SkipWs(v.s, r.next) = Len(v.s) + 1
             THEN Ok(r.val)
             ELSE Raise("JSONDecodeError")

(***************************************************************************)
(* Responses.  headers maps each header name to its text, or to Absent;    *)
(* body is the payload: either not JSON at all, or a JSON object whose     *)
(* keys map to their values (Absent: the object has no such key).          *)
(***************************************************************************)
HeaderNames == {"retry-after", "x-ratelimit", "x-account-limit", "x-error-message"}
NoHeaders == [h \in HeaderNames |-> Absent]
BodyKeys == {"error", "error_description"}
NoObject == [k \in BodyKeys |-> Absent]
NotJsonBody == [json |-> FALSE, obj |-> NoObject]
JsonBody(o) == [json |-> TRUE, obj |-> o]
NoResponse == [status_code |-> 0, headers |-> NoHeaders, body |-> NotJsonBody]

\* CaseInsensitiveDict.get(key, default)
headers_get(headers, key, default) ==
    IF headers[key] = Absent THEN default ELSE headers[key]

\* Response.json(): the decoded body, or a decode error
Response_json(r) ==
    IF r.body.json THEN [exc |-> "none", obj |-> r.body.obj]
    ELSE [exc |-> "JSONDecodeError", obj |-> NoObject]

\* dict[key]
dict_getitem(d, key) == IF d[key] = Absent THEN Raise("KeyError") ELSE Ok(d[key])

(***************************************************************************)
(* errors.py: the exported names, the class hierarchy and the attributes   *)
(* each class body sets.                                                   *)
(***************************************************************************)
\* the same names with OAuthRefreshException moved behind OAuthException
errors_all_refresh_last ==
    <<"TraktException",
      "BadResponseException",
      "AccountLimitExceeded", "BadRequestException", "OAuthException",
      "OAuthRefreshException",
      "ForbiddenException", "NotFoundException", "MethodNotAllowedException",
      "ConflictException", "ProcessException", "LockedUserAccountException",
      "RateLimitException", "TraktInternalException", "TraktBadGateway",
      "TraktUnavailable">>

errors_all ==
    <<"TraktException",
      "BadResponseException", "OAuthRefreshException",
      "AccountLimitExceeded", "BadRequestException", "OAuthException",
      "ForbiddenException", "NotFoundException", "MethodNotAllowedException",
      "ConflictException", "ProcessException", "LockedUserAccountException",
      "RateLimitException", "TraktInternalException", "TraktBadGateway",
      "TraktUnavailable">>

Classes == {errors_all[k] : k \in 1..Len(errors_all)}

Bases(c) ==
    CASE c = "TraktException" -> "Exception"
      [] c = "OAuthRefreshException" -> "OAuthException"
      [] c = "AccountLimitExceeded" -> "RateLimitException"
      [] OTHER -> "TraktException"

Attrs(code, message) == ("http_code" :> code) @@ ("message" :> PyStr(<<message>>))

\* class AccountLimitExceeded(RateLimitException): its own http_code and message
AccountLimitExceeded_inherits == <<>>

AccountLimitExceeded_dict ==
    Attrs(PyInt(420), "Account Limit Exceeded - list count, item count, etc")

ClassDict(c) ==
    CASE c = "TraktException" -> ("http_code" :> PyNone) @@ ("message" :> PyNone)
      [] c = "BadResponseException" ->
            Attrs(PyInt(-1), "Bad Response - Response could not be parsed")
      [] c = "BadRequestException" ->
            Attrs(PyInt(400), "Bad Request - request couldn't be parsed")
      [] c = "OAuthException" ->
            Attrs(PyInt(401), "Unauthorized - OAuth must be provided")
      [] c = "OAuthRefreshException" -> <<>>
      [] c = "ForbiddenException" ->
            Attrs(PyInt(403), "Forbidden - invalid API key or unapproved app")
      [] c = "NotFoundException" ->
            Attrs(PyInt(404), "Not Found - method exists, but no record found")
      [] c = "MethodNotAllowedException" ->
            Attrs(PyInt(405), "Method Not Found - method doesn't exist")
      [] c = "ConflictException" ->
            Attrs(PyInt(409), "Conflict - resource already created")
      [] c = "ProcessException" ->
            Attrs(PyInt(422), "Unprocessable Entity - validation errors")
      [] c = "LockedUserAccountException" ->
            Attrs(PyInt(423), "Locked User Account - have the user contact support")
      [] c = "RateLimitException" -> Attrs(PyInt(429), "Rate Limit Exceeded")
      [] c = "AccountLimitExceeded" -> AccountLimitExceeded_dict
      [] c = "TraktInternalException" -> Attrs(PyInt(500), "Internal Server Error")
      [] c = "TraktBadGateway" -> Attrs(PyInt(502), "Trakt Unavailable - Bad Gateway")
      [] c = "TraktUnavailable" ->
            Attrs(PyInt(503), "Trakt Unavailable - server overloaded")

\* The properties each class body defines.
ClassProps(c) ==
    CASE c = "OAuthRefreshException" -> {"error", "error_description"}
      [] c = "RateLimitException" -> {"retry_after", "details"}
      [] c = "AccountLimitExceeded" -> {"account_limit"}
      [] c = "TraktInternalException" -> {"error_message"}
      [] OTHER -> {}

\* Attribute lookup along the method resolution order (single inheritance).
RECURSIVE class_getattr(_, _)
class_getattr(c, a) ==
    IF c = "Exception" THEN Raise("AttributeError")
    ELSE IF a \in DOMAIN ClassDict(c) THEN Ok(ClassDict(c)[a])
    ELSE class_getattr(Bases(c), a)

RECURSIVE issubclass(_, _)
issubclass(c, b) ==
    IF c = b THEN TRUE ELSE IF c = "Exception" THEN FALSE ELSE issubclass(Bases(c), b)

RECURSIVE has_property(_, _)
has_property(c, a) ==
    IF c = "Exception" THEN FALSE
    ELSE IF a \in ClassProps(c) THEN TRUE ELSE has_property(Bases(c), a)

http_code(c) == class_getattr(c, "http_code").val

(***************************************************************************)
(* Error instances and their constructors.                                 *)
(***************************************************************************)
NoErr == [cls |-> "none", response |-> NoResponse, details |-> Absent, data |-> NoObject]
Blank(c) == [cls |-> c, response |-> NoResponse, details |-> Absent, data |-> NoObject]
Built(self) == [exc |-> "none", obj |-> self]
Failed(e) == [exc |-> e, obj |-> NoErr]

TraktException_init_drops(self, r) == self

TraktException_init(self, r) == [self EXCEPT !.response = r]

BadResponseException_init(self, r, d) ==
    [TraktException_init(self, r) EXCEPT !.details = d]

OAuthRefreshException_init(self, r) ==
    LET s == TraktException_init(self, r)
        j == Response_json(s.response)
    IN  IF j.exc # "none" THEN Failed(j.exc) ELSE Built([s EXCEPT !.data = j.obj])

\* cls(response) / BadResponseException(response, details)
construct(c, r, d) ==
    CASE c = "BadResponseException" -> Built(BadResponseException_init(Blank(c), r, d))
      [] c = "OAuthRefreshException" -> OAuthRefreshException_init(Blank(c), r)
      [] OTHER -> Built(TraktException_init(Blank(c), r))

(***************************************************************************)
(* The accessors.                                                          *)
(***************************************************************************)
TraktException_str(self) == class_getattr(self.cls, "message")

retry_after(self) ==
    py_int(headers_get(self.response.headers, "retry-after", PyInt(1)))

details_default_none(self) ==
    LET r == json_loads(headers_get(self.response.headers, "x-ratelimit", PyNone))
    IN  IF r.exc = "JSONDecodeError" THEN Ok(PyNone) ELSE r

details(self) ==
    LET r == json_loads(headers_get(self.response.headers, "x-ratelimit", PyStr(<<>>)))
    IN  IF r.exc = "JSONDecodeError" THEN Ok(PyNone) ELSE r

account_limit(self) == Ok(headers_get(self.response.headers, "x-account-limit", PyNone))

error_message(self) == Ok(headers_get(self.response.headers, "x-error-message", PyNone))

error_reads_description(self) == dict_getitem(self.data, "error_description")

error(self) == dict_getitem(self.data, "error")

error_description(self) == dict_getitem(self.data, "error_description")

(***************************************************************************)
(* The status-code mapping of the request pipeline (trakt/api.py): a map   *)
(* from http_code to class, filled from the exported names in order, the   *)
(* base class left out, a later name replacing an earlier one with the     *)
(* same code.  A code the map lacks surfaces as a BadResponseException     *)
(* that carries the raw response.                                          *)
(***************************************************************************)
RECURSIVE error_map_upto(_)
error_map_upto(k) ==
    IF k = 0 THEN <<>>
    ELSE LET c == errors_all[k]
         IN  IF c = "TraktException" THEN error_map_upto(k - 1)
             ELSE (http_code(c).i :> c) @@ error_map_upto(k - 1)

error_map == error_map_upto(Len(errors_all))

error_class(code) ==
    IF code \in DOMAIN error_map THEN error_map[code] ELSE "BadResponseException"

raise_for_status(r) == construct(error_class(r.status_code), r, PyStr(<<"raw">>))

(***************************************************************************)
(* The responses the model draws from: every status code of the taxonomy   *)
(* and one it lacks, with each body; and, on the two rate-limit codes,     *)
(* every retry-after and every x-ratelimit text within the bounds.         *)
(***************************************************************************)
TableCodes == {400, 401, 403, 404, 405, 409, 420, 422, 423, 429, 500, 502, 503}
Codes == TableCodes \cup {418}

RetryAlphabet == {"3", "0", "a", "-", " "}
JsonAlphabet == {"1", "[", "]", " ", "x"}
RetryTexts == Strings(RetryAlphabet, MaxRetryLen)
JsonTexts == Strings(JsonAlphabet, MaxJsonLen)

Bodies ==
    {NotJsonBody} \cup
    {JsonBody([error |-> e, error_description |-> d]) :
        e \in {Absent, PyStr(<<"invalid_grant">>)},
        d \in {Absent, PyStr(<<"The refresh token is invalid">>)}}

WithHeader(name, v) == [NoHeaders EXCEPT ![name] = v]

Responses ==
    [status_code : Codes, headers : {NoHeaders}, body : Bodies]
    \cup [status_code : {420, 429},
          headers : {WithHeader("retry-after", PyStr(x)) : x \in RetryTexts},
          body : {NotJsonBody}]
    \cup [status_code : {420, 429},
          headers : {WithHeader("x-ratelimit", PyStr(x)) : x \in JsonTexts},
          body : {NotJsonBody}]
    \cup [status_code : {420},
          headers : {WithHeader("x-account-limit", PyStr(<<"100">>))},
          body : {NotJsonBody}]
    \cup [status_code : {500},
          headers : {WithHeader("x-error-message", PyStr(<<"boom">>))},
          body : {NotJsonBody}]

NoResult == Ok(PyNone)

(***************************************************************************)
(* errors.py as a state machine: a response arrives, an error is built     *)
(* from it (by the status-code mapping, or directly, of any exported       *)
(* class), and its accessors are read in any order.                        *)
(***************************************************************************)

Constructed(o, name) ==
    /\ err' = o.obj
    /\ result' = [exc |-> o.exc, val |-> PyNone]
    /\ op' = name
    /\ UNCHANGED <<response, coreVars, reqVars>>

\* the pipeline maps the response's status code to a class and raises it
E_raise_for_status == Constructed(raise_for_status(response), "raise")

\* cls(response), for any exported class
E_new ==
    \E c \in Classes, d \in {PyNone, PyStr(<<"raw">>)} :
        /\ (c # "BadResponseException") => (d = PyNone)
        /\ Constructed(construct(c, response, d), "new")

Accessed(o, name) ==
    /\ err # NoErr
    /\ result' = o
    /\ op' = name
    /\ UNCHANGED <<response, err, coreVars, reqVars>>

E_str == Accessed(TraktException_str(err), "message")

E_http_code == Accessed(class_getattr(err.cls, "http_code"), "http_code")

E_retry_after ==
    /\ has_property(err.cls, "retry_after")
    /\ Accessed(retry_after(err), "retry_after")

\* RateLimitException's property; BadResponseException's instance attribute
E_details ==
    /\ has_property(err.cls, "details") \/ err.cls = "BadResponseException"
    /\ Accessed(IF has_property(err.cls, "details") THEN details(err)
                ELSE Ok(err.details), "details")

E_account_limit ==
    /\ has_property(err.cls, "account_limit")
    /\ Accessed(account_limit(err), "account_limit")

E_error_message ==
    /\ has_property(err.cls, "error_message")
    /\ Accessed(error_message(err), "error_message")

E_error ==
    /\ has_property(err.cls, "error")
    /\ Accessed(error(err), "error")

E_error_description ==
    /\ has_property(err.cls, "error_description")
    /\ Accessed(error_description(err), "error_description")

ErrNext ==
    \/ E_raise_for_status
    \/ E_new
    \/ E_str
    \/ E_http_code
    \/ E_retry_after
    \/ E_details
    \/ E_account_limit
    \/ E_error_message
    \/ E_error
    \/ E_error_description

(***************************************************************************)
(* Properties of errors.py.                                                *)
(***************************************************************************)
\* The kind the status-code table documents for each code.
Documented ==
    (400 :> "BadRequestException") @@ (401 :> "OAuthException")
    @@ (403 :> "ForbiddenException") @@ (404 :> "NotFoundException")
    @@ (405 :> "MethodNotAllowedException") @@ (409 :> "ConflictException")
    @@ (420 :> "AccountLimitExceeded") @@ (422 :> "ProcessException")
    @@ (423 :> "LockedUserAccountException") @@ (429 :> "RateLimitException")
    @@ (500 :> "TraktInternalException") @@ (502 :> "TraktBadGateway")
    @@ (503 :> "TraktUnavailable")

\* C1: a response whose status code is in the table is mapped, through the
\* http_code of the exported classes, to an error of exactly the documented
\* class, whose http_code is that status code.
C1_StatusMapsToDocumentedKind ==
    (op = "raise" /\ response.status_code \in TableCodes) =>
        /\ result.exc = "none"
        /\ err.cls = Documented[response.status_code]
        /\ http_code(err.cls) = PyInt(response.status_code)

\* 401 is the code two exported classes share; the mapping settles on
\* OAuthException.
C1_Witness ==
    /\ op = "raise"
    /\ response.status_code = 401
    /\ err.cls = "OAuthException"

\* C2: on a rate-limit error, retry_after never raises; it is 1 when the
\* retry-after header is missing or is not an integer, and the header's
\* integer value otherwise.
C2_RetryAfterDefaultsToOne ==
    (op = "retry_after") =>
        LET h == err.response.headers["retry-after"]
        IN  result = Ok(PyInt(IF h = Absent \/ ~ParsesAsInt(h.s) THEN 1
                              ELSE IntSign(h.s) * DecimalValue(IntBody(h.s))))

\* The JSON documents within the bound, generated from the grammar (numbers
\* and lists, whitespace allowed around every token), each with its value.
Spaces == {[k \in 1..n |-> " "] : n \in 0..MaxJsonLen}
Fits(docs) == {d \in docs : Len(d.text) <= MaxJsonLen}
Padded(docs) ==
    Fits({[text |-> l \o d.text \o r, val |-> d.val] :
            d \in docs, l \in Spaces, r \in Spaces})
Repunit(n) == ((10 ^ n) - 1) \div 9
NumberDocs ==
    {[text |-> [k \in 1..n |-> "1"], val |-> PyInt(Repunit(n))] : n \in 1..MaxJsonLen}
ListOf(texts, v) == [text |-> <<"[">> \o texts \o <<"]">>, val |-> PyList(v)]

RECURSIVE JsonDocs(_)
JsonDocs(depth) ==
    IF depth = 0
    THEN NumberDocs \cup Fits({ListOf(sp, <<"[", "]">>) : sp \in Spaces})
    ELSE LET inner == JsonDocs(depth - 1)
         IN  inner \cup
             Fits({ListOf(e.text, <<"[">> \o JsonText(e.val) \o <<"]">>) :
                     e \in Padded(inner)})

ValidJson == Padded(JsonDocs(MaxJsonLen))
IsValidJson(x) == \E d \in ValidJson : d.text = x
JsonMeaning(x) == (CHOOSE d \in ValidJson : d.text = x).val

\* C3: on a rate-limit error, details never raises: it is the parsed value
\* when the x-ratelimit header is valid JSON, and None when the header is
\* absent, empty or malformed.
C3_DetailsNeverRaises ==
    (op = "details" /\ has_property(err.cls, "details")) =>
        LET h == err.response.headers["x-ratelimit"]
        IN  result = IF h # Absent /\ IsValidJson(h.s)
                     THEN Ok(JsonMeaning(h.s))
                     ELSE Ok(PyNone)

\* details was read on a 420 error whose header is cut-off JSON.
C3_Witness ==
    /\ op = "details"
    /\ err.cls = "AccountLimitExceeded"
    /\ err.response.headers["x-ratelimit"] = PyStr(<<"[", "1">>)
    /\ result = Ok(PyNone)

Constructors == {"new", "raise"}
Accessors ==
    {"message", "http_code", "retry_after", "details", "account_limit",
     "error_message", "error", "error_description"}

\* C6: an error built from response r holds r as its response, and no
\* accessor changes the response or any other field of the error.
C6_ErrorCarriesResponse ==
    [][/\ (op' \in Constructors /\ err' # NoErr) => (err'.response = response)
       /\ (op' \in Accessors) => (err' = err /\ err'.response = response')]_errVars

\* retry_after was read on a 429 error that carries the response it was
\* built from, a retry-after header included.
C6_Witness ==
    /\ op = "retry_after"
    /\ err.cls = "RateLimitException"
    /\ err.response = response
    /\ response.headers["retry-after"] = PyStr(<<"3", "0">>)
    /\ result = Ok(PyInt(30))

(***************************************************************************)
(* core.py.  A setting holds 0, the value the module gives it (None, or    *)
(* the default URL, headers and path), or 1, a value assigned later.       *)
(* Objects are known by their position in clients / configs.               *)
(***************************************************************************)
SettingNames ==
    {"BASE_URL", "CLIENT_ID", "CLIENT_SECRET", "HEADERS", "CONFIG_PATH",
     "OAUTH_TOKEN", "OAUTH_EXPIRES_AT", "OAUTH_REFRESH"}
SettingValues == {0, 1}
Threads == 1..NumThreads

\* AuthConfig's keyword arguments, in the order api() evaluates them
AuthConfigFields ==
    <<"CLIENT_ID", "CLIENT_SECRET", "OAUTH_EXPIRES_AT", "OAUTH_REFRESH",
      "OAUTH_TOKEN", "HEADERS">>
NoParams == [f \in {AuthConfigFields[k] : k \in 1..Len(AuthConfigFields)} |-> 0]
NoAuth == [set |-> FALSE, config |-> 0, params |-> NoParams]
Returned(obj, epoch) == [obj |-> obj, epoch |-> epoch]
NoReturn == [api |-> Returned(0, 0), config |-> Returned(0, 0)]

\* lru_cache's wrapper: the cached result, or 0 on a miss
lru_cache_miss(cache) == 0

lru_cache_get(cache) == cache

\* the global that the keyword argument f of AuthConfig(...) is given
AuthConfig_arg_swapped(f) ==
    CASE f = "OAUTH_EXPIRES_AT" -> "OAUTH_REFRESH"
      [] f = "OAUTH_REFRESH" -> "OAUTH_EXPIRES_AT"
      [] OTHER -> f

AuthConfig_arg(f) == f

\* user code: trakt.core.<name> = v
Assign(n, v) ==
    /\ nAssign < MaxAssign
    /\ settings[n] # v
    /\ settings' = [settings EXCEPT ![n] = v]
    /\ nAssign' = nAssign + 1
    /\ UNCHANGED <<api_cache, config_cache, clients, configs, pc, rd, params,
                   client, ret, nClear>>
    /\ UNCHANGED <<errVars, reqVars>>

\* api.cache_clear()
api_cache_clear ==
    /\ nClear.api + nClear.config < MaxClear
    /\ api_cache' = 0
    /\ nClear' = [nClear EXCEPT !.api = @ + 1]
    /\ UNCHANGED <<settings, config_cache, clients, configs, pc, rd, params,
                   client, ret, nAssign>>
    /\ UNCHANGED <<errVars, reqVars>>

\* config.cache_clear()
config_cache_clear ==
    /\ nClear.api + nClear.config < MaxClear
    /\ config_cache' = 0
    /\ nClear' = [nClear EXCEPT !.config = @ + 1]
    /\ UNCHANGED <<settings, api_cache, clients, configs, pc, rd, params,
                   client, ret, nAssign>>
    /\ UNCHANGED <<errVars, reqVars>>

\* config(): the wrapper looks the result up; on a miss the body runs next
config_call(t) ==
    /\ pc[t] = "idle"
    /\ IF lru_cache_get(config_cache) # 0
       THEN /\ ret' = [ret EXCEPT ![t].config =
                           Returned(lru_cache_get(config_cache), nClear.config)]
            /\ UNCHANGED pc
       ELSE /\ pc' = [pc EXCEPT ![t] = "config_body"]
            /\ UNCHANGED ret
    /\ UNCHANGED <<settings, api_cache, config_cache, clients, configs, rd,
                   params, client, nAssign, nClear>>
    /\ UNCHANGED <<errVars, reqVars>>

\* Config(CONFIG_PATH); the wrapper stores the result and returns it
config_body(t) ==
    /\ pc[t] \in {"config_body", "api_config_body"}
    /\ configs' = Append(configs, [path |-> settings["CONFIG_PATH"]])
    /\ config_cache' = Len(configs) + 1
    /\ IF pc[t] = "config_body"
       THEN /\ ret' = [ret EXCEPT ![t].config =
                           Returned(Len(configs) + 1, nClear.config)]
            /\ pc' = [pc EXCEPT ![t] = "idle"]
            /\ UNCHANGED clients
       ELSE /\ clients' = [clients EXCEPT ![client[t]].auth.config = Len(configs) + 1]
            /\ pc' = [pc EXCEPT ![t] = "api_auth"]
            /\ UNCHANGED ret
    /\ UNCHANGED <<settings, api_cache, rd, params, client, nAssign, nClear>>
    /\ UNCHANGED <<errVars, reqVars>>

\* api(): the wrapper looks the result up; on a miss the body runs next
api_call(t) ==
    /\ pc[t] = "idle"
    /\ IF lru_cache_get(api_cache) # 0
       THEN /\ ret' = [ret EXCEPT ![t].api =
                           Returned(lru_cache_get(api_cache), nClear.api)]
            /\ UNCHANGED <<pc, rd, params, client>>
       ELSE /\ pc' = [pc EXCEPT ![t] = "api_params"]
            /\ rd' = [rd EXCEPT ![t] = 0]
            /\ params' = [params EXCEPT ![t] = NoParams]
            /\ client' = [client EXCEPT ![t] = 0]
            /\ UNCHANGED ret
    /\ UNCHANGED <<settings, api_cache, config_cache, clients, configs,
                   nAssign, nClear>>
    /\ UNCHANGED <<errVars, reqVars>>

\* params = AuthConfig(CLIENT_ID=CLIENT_ID, ...): one global read per step
api_params(t) ==
    /\ pc[t] = "api_params"
    /\ LET f == AuthConfigFields[rd[t] + 1]
       IN  params' = [params EXCEPT ![t][f] = settings[AuthConfig_arg(f)]]
    /\ rd' = [rd EXCEPT ![t] = @ + 1]
    /\ pc' = [pc EXCEPT ![t] = IF rd[t] + 1 = Len(AuthConfigFields)
                               THEN "api_client" ELSE "api_params"]
    /\ UNCHANGED <<settings, api_cache, config_cache, clients, configs, client,
                   ret, nAssign, nClear>>
    /\ UNCHANGED <<errVars, reqVars>>

\* client = HttpClient(BASE_URL, session); client.set_headers(params.HEADERS)
api_client(t) ==
    /\ pc[t] = "api_client"
    /\ clients' = Append(clients, [BASE_URL |-> settings["BASE_URL"],
                                   headers |-> params[t]["HEADERS"],
                                   auth |-> NoAuth])
    /\ client' = [client EXCEPT ![t] = Len(clients) + 1]
    /\ pc' = [pc EXCEPT ![t] = "api_config"]
    /\ UNCHANGED <<settings, api_cache, config_cache, configs, rd, params, ret,
                   nAssign, nClear>>
    /\ UNCHANGED <<errVars, reqVars>>

\* the call config() inside TokenAuth(client=client, config=config(), ...)
api_config(t) ==
    /\ pc[t] = "api_config"
    /\ IF lru_cache_get(config_cache) # 0
       THEN /\ clients' = [clients EXCEPT
                              ![client[t]].auth.config = lru_cache_get(config_cache)]
            /\ pc' = [pc EXCEPT ![t] = "api_auth"]
       ELSE /\ pc' = [pc EXCEPT ![t] = "api_config_body"]
            /\ UNCHANGED clients
    /\ UNCHANGED <<settings, api_cache, config_cache, configs, rd, params,
                   client, ret, nAssign, nClear>>
    /\ UNCHANGED <<errVars, reqVars>>

\* auth = TokenAuth(..., params=params); client.set_auth(auth); return client;
\* the wrapper stores the result and returns it
api_auth(t) ==
    /\ pc[t] = "api_auth"
    /\ clients' = [clients EXCEPT ![client[t]].auth.params = params[t],
                                  ![client[t]].auth.set = TRUE]
    /\ api_cache' = client[t]
    /\ ret' = [ret EXCEPT ![t].api = Returned(client[t], nClear.api)]
    /\ pc' = [pc EXCEPT ![t] = "idle"]
    /\ UNCHANGED <<settings, config_cache, configs, rd, params, client,
                   nAssign, nClear>>
    /\ UNCHANGED <<errVars, reqVars>>

CoreNext ==
    \/ \E n \in SettingNames, v \in SettingValues : Assign(n, v)
    \/ api_cache_clear
    \/ config_cache_clear
    \/ \E t \in Threads : config_call(t)
    \/ \E t \in Threads : config_body(t)
    \/ \E t \in Threads : api_call(t)
    \/ \E t \in Threads : api_params(t)
    \/ \E t \in Threads : api_client(t)
    \/ \E t \in Threads : api_config(t)
    \/ \E t \in Threads : api_auth(t)

\* one caller, with the assignments and cache_clear() calls of user code
Caller == CHOOSE t \in Threads : \A u \in Threads : t <= u

SnapshotNext ==
    \/ \E n \in SettingNames, v \in SettingValues : Assign(n, v)
    \/ api_cache_clear
    \/ config_cache_clear
    \/ config_call(Caller)
    \/ config_body(Caller)
    \/ api_call(Caller)
    \/ api_params(Caller)
    \/ api_client(Caller)
    \/ api_config(Caller)
    \/ api_auth(Caller)

(***************************************************************************)
(* api.py (HttpClient.request and TokenAuth), which core.py imports and    *)
(* wires up, as sections 4.2, 4.3 and 5 of the specification describe it.  *)
(* Tokens are numbered: the service issues access token g together with    *)
(* refresh token g.  0 stands for "none".                                  *)
(***************************************************************************)
Requesters == 1..NumRequests

Credentials(a, r, e) == [access_token |-> a, refresh_token |-> r, expires_at |-> e]
NoCredentials == Credentials(0, 0, 0)
Service(a, r, e, n) ==
    [access_token |-> a, refresh_token |-> r, expires_at |-> e, issued |-> n]
Exchange(r, s) == [refresh_token |-> r, status_code |-> s]

NoRequest ==
    [pc |-> "idle", client |-> 0, header |-> 0, stale |-> 0, expired |-> FALSE,
     retried |-> FALSE, nRefresh |-> 0, nSend |-> 0, status_code |-> 0,
     refresh_status |-> 0, answer |-> NoResponse, raised |-> "none",
     exc |-> NoErr]

\* TokenAuth.is_expired(): no access token, no expiry, or the expiry reached
is_expired(c) == c.access_token = 0 \/ c.expires_at = 0 \/ now >= c.expires_at

\* TokenAuth.current_auth_header(): the bearer token, or none
current_auth_header(c) == IF is_expired(c) THEN 0 ELSE c.access_token

\* the service's view of a bearer token
Honoured(h) == h # 0 /\ h = server.access_token /\ now < server.expires_at

\* what the transport call can come back with: a failure of the transport
\* (0), the service's verdict on the token, or an error of the service
Answers(h) == (IF Honoured(h) THEN {200} ELSE {401}) \cup {0, 429, 500}

ApiResponse(s) == [status_code |-> s, headers |-> NoHeaders, body |-> NotJsonBody]
TokenResponse(b) == [status_code |-> 401, headers |-> NoHeaders, body |-> b]

\* the HttpClient api() builds from the settings, run without interruption
HttpClient(cfg) ==
    [BASE_URL |-> settings["BASE_URL"],
     headers |-> settings[AuthConfig_arg("HEADERS")],
     auth |-> [set |-> TRUE, config |-> cfg,
               params |-> [f \in DOMAIN NoParams |-> settings[AuthConfig_arg(f)]]]]

\* the credentials a TokenAuth starts from: those of its params
TokenAuth_credentials(p) ==
    Credentials(p["OAUTH_TOKEN"], p["OAUTH_REFRESH"], p["OAUTH_EXPIRES_AT"])

Raised(t, status, e) ==
    [rq[t] EXCEPT !.pc = "done", !.status_code = status,
                  !.raised = IF e.exc # "none" THEN e.exc ELSE e.obj.cls,
                  !.exc = e.obj]

\* api().request(...): the caller looks the client up
request_api(t) ==
    /\ rq[t].pc = "idle"
    /\ IF lru_cache_get(api_cache) # 0
       THEN /\ rq' = [rq EXCEPT ![t].pc = "auth", ![t].client = lru_cache_get(api_cache)]
            /\ UNCHANGED <<api_cache, config_cache, clients, configs, creds, lock>>
       ELSE LET hit == lru_cache_get(config_cache) # 0
                cfg == IF hit THEN lru_cache_get(config_cache) ELSE Len(configs) + 1
                new == HttpClient(cfg)
            IN  /\ configs' = IF hit THEN configs
                              ELSE Append(configs, [path |-> settings["CONFIG_PATH"]])
                /\ config_cache' = cfg
                /\ clients' = Append(clients, new)
                /\ api_cache' = Len(clients) + 1
                /\ creds' = Append(creds, TokenAuth_credentials(new.auth.params))
                /\ lock' = Append(lock, 0)
                /\ rq' = [rq EXCEPT ![t].pc = "auth", ![t].client = Len(clients) + 1]
    /\ UNCHANGED <<settings, pc, rd, params, client, ret, nAssign, nClear>>
    /\ UNCHANGED <<store, now, server, exchanges, errVars>>

\* request(), step 2: attach a usable header, or refresh first
request_auth(t) ==
    /\ rq[t].pc = "auth"
    /\ LET c == creds[rq[t].client]
       IN  rq' = [rq EXCEPT ![t] =
                IF ~is_expired(c)
                THEN [@ EXCEPT !.pc = "send", !.header = c.access_token]
                ELSE IF c.refresh_token # 0
                THEN [@ EXCEPT !.pc = "refresh", !.stale = c.refresh_token,
                               !.expired = TRUE, !.nRefresh = @ + 1]
                ELSE [@ EXCEPT !.pc = "send", !.header = 0]]
    /\ UNCHANGED <<creds, lock, store, now, server, exchanges, coreVars, errVars>>

\* refresh(), entered under the lock: if another request has replaced the
\* credentials meanwhile, its result is used and no exchange is started
request_refresh(t) ==
    /\ rq[t].pc = "refresh"
    /\ lock[rq[t].client] = 0
    /\ IF creds[rq[t].client].refresh_token # rq[t].stale
       THEN /\ rq' = [rq EXCEPT ![t].pc = "send",
                        ![t].header = current_auth_header(creds[rq[t].client])]
            /\ UNCHANGED lock
       ELSE /\ rq' = [rq EXCEPT ![t].pc = "exchange"]
            /\ lock' = [lock EXCEPT ![rq[t].client] = t]
    /\ UNCHANGED <<creds, store, now, server, exchanges, coreVars, errVars>>

\* the token endpoint accepts the refresh token: new credentials, persisted
exchange_accepted(t) ==
    LET cl == rq[t].client
        r == creds[cl].refresh_token
        g == server.issued + 1
        c == Credentials(g, g, now + 1)
    IN  /\ r = server.refresh_token
        /\ server' = Service(g, g, now + 1, g)
        /\ exchanges' = Append(exchanges, Exchange(r, 200))
        /\ creds' = [creds EXCEPT ![cl] = c]
        /\ store' = c
        /\ rq' = [rq EXCEPT ![t].pc = "send", ![t].refresh_status = 200,
                            ![t].header = c.access_token]

\* the token endpoint answers 401: OAuthRefreshException(response) is raised
exchange_rejected(t) ==
    LET r == creds[rq[t].client].refresh_token
    IN  /\ r # server.refresh_token
        /\ exchanges' = Append(exchanges, Exchange(r, 401))
        /\ \E b \in Bodies :
              rq' = [rq EXCEPT ![t] =
                        [Raised(t, rq[t].status_code,
                                construct("OAuthRefreshException",
                                          TokenResponse(b), PyNone))
                           EXCEPT !.refresh_status = 401,
                                  !.answer = TokenResponse(b)]]
        /\ UNCHANGED <<creds, store, server>>

\* the token endpoint is not reached: the transport's error propagates
exchange_failed(t) ==
    /\ rq' = [rq EXCEPT ![t] = Raised(t, rq[t].status_code, Failed("TransportError"))]
    /\ UNCHANGED <<creds, store, server, exchanges>>

\* refresh(), the exchange itself; the lock is released on the way out
request_exchange(t) ==
    /\ rq[t].pc = "exchange"
    /\ \/ exchange_accepted(t)
       \/ exchange_rejected(t)
       \/ exchange_failed(t)
    /\ lock' = [lock EXCEPT ![rq[t].client] = 0]
    /\ UNCHANGED <<now, coreVars, errVars>>

\* request(), steps 3 to 6: the transport call and what follows from its answer
request_send(t) ==
    /\ rq[t].pc = "send"
    /\ \E s \in Answers(rq[t].header), parsed \in BOOLEAN :
          LET sent == [rq[t] EXCEPT !.nSend = @ + 1, !.status_code = s,
                                    !.retried = (rq[t].nSend > 0)]
          IN  rq' = [rq EXCEPT ![t] =
                  CASE s = 0 ->
                          [Raised(t, s, Failed("TransportError"))
                             EXCEPT !.nSend = sent.nSend, !.retried = sent.retried]
                    [] s = 200 /\ parsed -> [sent EXCEPT !.pc = "done"]
                    [] s = 200 /\ ~parsed ->
                          [Raised(t, s, construct("BadResponseException",
                                                  ApiResponse(s), PyStr(<<"raw">>)))
                             EXCEPT !.nSend = sent.nSend, !.retried = sent.retried]
                    [] /\ s = 401
                       /\ ~sent.retried
                       /\ rq[t].nRefresh = 0
                       /\ creds[rq[t].client].refresh_token # 0 ->
                          [sent EXCEPT !.pc = "refresh", !.stale = rq[t].header,
                                       !.nRefresh = @ + 1]
                    [] OTHER ->
                          [Raised(t, s, raise_for_status(ApiResponse(s)))
                             EXCEPT !.nSend = sent.nSend, !.retried = sent.retried]]
    /\ UNCHANGED <<creds, lock, store, now, server, exchanges, coreVars, errVars>>

\* time passes
Tick ==
    /\ now < MaxTime
    /\ now' = now + 1
    /\ UNCHANGED <<creds, lock, store, server, exchanges, rq, coreVars, errVars>>

\* the user withdraws the application's authorization on the service
Revoke ==
    /\ server.access_token # 0
    /\ server' = [server EXCEPT !.access_token = 0, !.refresh_token = 0]
    /\ UNCHANGED <<creds, lock, store, now, exchanges, rq, coreVars, errVars>>

RequestNext ==
    \/ \E t \in Requesters : request_api(t)
    \/ \E t \in Requesters : request_auth(t)
    \/ \E t \in Requesters : request_refresh(t)
    \/ \E t \in Requesters : request_exchange(t)
    \/ \E t \in Requesters : request_send(t)
    \/ Tick
    \/ Revoke

(***************************************************************************)
(* The specifications.  SpecErrors: errors.py.  SpecCore: core.py with     *)
(* concurrent callers.  SpecSnapshot: core.py with one caller.             *)
(* SpecRequest: the request pipeline, from the state where api() has       *)
(* returned the client, built from settings that hold a token pair.        *)
(***************************************************************************)
NoSettings == [n \in SettingNames |-> 0]
AcquiredSettings(r) ==
    [NoSettings EXCEPT !["OAUTH_TOKEN"] = 1, !["OAUTH_EXPIRES_AT"] = 1,
                       !["OAUTH_REFRESH"] = r]
AcquiredClient(r) ==
    [BASE_URL |-> 0, headers |-> 0,
     auth |-> [set |-> TRUE, config |-> 1,
               params |-> [f \in DOMAIN NoParams |-> AcquiredSettings(r)[f]]]]

InitErrors ==
    /\ response \in Responses
    /\ err = NoErr /\ result = NoResult /\ op = "init"
    /\ settings = NoSettings
    /\ api_cache = 0 /\ config_cache = 0
    /\ clients = <<>> /\ configs = <<>>
    /\ pc = [t \in Threads |-> "idle"]
    /\ rd = [t \in Threads |-> 0]
    /\ params = [t \in Threads |-> NoParams]
    /\ client = [t \in Threads |-> 0]
    /\ ret = [t \in Threads |-> NoReturn]
    /\ nAssign = 0 /\ nClear = [api |-> 0, config |-> 0]
    /\ creds = <<>> /\ lock = <<>> /\ store = NoCredentials
    /\ now = 0 /\ server = Service(0, 0, 0, 0) /\ exchanges = <<>>
    /\ rq = [t \in Requesters |-> NoRequest]

InitCore ==
    /\ response = NoResponse
    /\ err = NoErr /\ result = NoResult /\ op = "init"
    /\ settings = NoSettings
    /\ api_cache = 0 /\ config_cache = 0
    /\ clients = <<>> /\ configs = <<>>
    /\ pc = [t \in Threads |-> "idle"]
    /\ rd = [t \in Threads |-> 0]
    /\ params = [t \in Threads |-> NoParams]
    /\ client = [t \in Threads |-> 0]
    /\ ret = [t \in Threads |-> NoReturn]
    /\ nAssign = 0 /\ nClear = [api |-> 0, config |-> 0]
    /\ creds = <<>> /\ lock = <<>> /\ store = NoCredentials
    /\ now = 0 /\ server = Service(0, 0, 0, 0) /\ exchanges = <<>>
    /\ rq = [t \in Requesters |-> NoRequest]

InitRequest ==
    /\ response = NoResponse
    /\ err = NoErr /\ result = NoResult /\ op = "init"
    /\ \E r \in {0, 1} :
          /\ settings = AcquiredSettings(r)
          /\ clients = <<AcquiredClient(r)>>
          /\ creds = <<TokenAuth_credentials(AcquiredClient(r).auth.params)>>
          /\ store = TokenAuth_credentials(AcquiredClient(r).auth.params)
    /\ api_cache = 1 /\ config_cache = 1
    /\ configs = <<[path |-> 0]>>
    /\ pc = [t \in Threads |-> "idle"]
    /\ rd = [t \in Threads |-> 0]
    /\ params = [t \in Threads |-> NoParams]
    /\ client = [t \in Threads |-> 0]
    /\ ret = [t \in Threads |-> NoReturn]
    /\ nAssign = 0 /\ nClear = [api |-> 0, config |-> 0]
    /\ lock = <<0>>
    /\ now = 0 /\ server = Service(1, 1, 1, 1) /\ exchanges = <<>>
    /\ rq = [t \in Requesters |-> NoRequest]

vars == <<errVars, coreVars, reqVars>>

SpecErrors == InitErrors /\ [][ErrNext]_vars
SpecCore == InitCore /\ [][CoreNext]_vars
SpecSnapshot == InitCore /\ [][SnapshotNext]_vars
SpecRequest == InitRequest /\ [][RequestNext]_vars

(***************************************************************************)
(* Properties of core.py.                                                  *)
(***************************************************************************)
ApiReturns(t) == ret[t].api.obj
ConfigReturns(t) == ret[t].config.obj

\* C4: without a cache_clear(), however the callers' calls interleave, at
\* most one HttpClient and at most one Config are constructed, and every
\* call of api() (of config()) returns that one instance.
C4_ConstructedAtMostOnce ==
    (nClear.api = 0 /\ nClear.config = 0) =>
        /\ Len(clients) <= 1
        /\ Len(configs) <= 1
        /\ \A t, u \in Threads :
              /\ (ApiReturns(t) # 0 /\ ApiReturns(u) # 0)
                    => ApiReturns(t) = ApiReturns(u)
              /\ (ConfigReturns(t) # 0 /\ ConfigReturns(u) # 0)
                    => ConfigReturns(t) = ConfigReturns(u)

\* C5 as stated: in every snapshot handed to the token authenticator, a
\* non-null OAUTH_TOKEN comes with a set OAUTH_EXPIRES_AT.
C5_TokenImpliesExpiry ==
    \A c \in 1..Len(clients) :
        (clients[c].auth.set /\ clients[c].auth.params["OAUTH_TOKEN"] # 0)
            => clients[c].auth.params["OAUTH_EXPIRES_AT"] # 0

\* C5 as amended: the snapshot handed to the token authenticator holds, for
\* OAUTH_TOKEN and OAUTH_EXPIRES_AT, exactly the value the setting had when
\* api() read it; api() neither checks nor completes the pair.
C5_SnapshotCopiesSettings ==
    [][\A t \in Threads :
        /\ (pc[t] = "api_params" /\ rd'[t] = rd[t] + 1
            /\ AuthConfigFields[rd'[t]] \in {"OAUTH_TOKEN", "OAUTH_EXPIRES_AT"})
              => params'[t][AuthConfigFields[rd'[t]]]
                    = settings[AuthConfigFields[rd'[t]]]
        /\ (pc[t] = "api_auth" /\ pc'[t] = "idle")
              => /\ clients'[client[t]].auth.set
                 /\ \A f \in {"OAUTH_TOKEN", "OAUTH_EXPIRES_AT"} :
                       clients'[client[t]].auth.params[f] = params[t][f]]_vars

\* a snapshot was handed over with a token and no expiry
C5_Witness ==
    \E c \in 1..Len(clients) :
        /\ clients[c].auth.set
        /\ clients[c].auth.params["OAUTH_TOKEN"] # 0
        /\ clients[c].auth.params["OAUTH_EXPIRES_AT"] = 0

\* what a client holds of the settings
Binding(c) == [BASE_URL |-> c.BASE_URL, headers |-> c.headers, params |-> c.auth.params]

\* C10: between two cache_clear() calls the client api() returns is bound to
\* the settings of the first call: a client handed out keeps its parameters
\* whatever is assigned later, and a caller that calls api() again gets a
\* client with the same parameters, base URL and headers as before.
C10_BoundToFirstCallSettings ==
    [][/\ \A c \in 1..Len(clients) :
            clients[c].auth.set => (Binding(clients'[c]) = Binding(clients[c]))
       /\ \A t \in Threads :
            (/\ ret'[t].api # ret[t].api
             /\ ret[t].api.obj # 0
             /\ ret[t].api.epoch = nClear.api)
              => Binding(clients'[ret'[t].api.obj])
                    = Binding(clients[ret[t].api.obj])]_vars

ObservedSameExpiry(t, u) ==
    /\ t # u
    /\ rq[t].expired /\ rq[u].expired
    /\ rq[t].client = rq[u].client
    /\ rq[t].stale = rq[u].stale
Completed(t) == rq[t].pc = "done" /\ rq[t].raised = "none"
ExchangesOf(r) == {i \in 1..Len(exchanges) : exchanges[i].refresh_token = r}

====
